---- MODULE Spec2Model ----
(***************************************************************************)
(* Model of the petvers pet engine (backend.py) and of its request layer   *)
(* (app.py).                                                               *)
(*                                                                         *)
(* Numbers.  hunger, happiness, energy and max_energy are Python floats;   *)
(* every value the program computes from the inputs below is a multiple    *)
(* of 0.01, so they are held as integers counting hundredths (Scale).      *)
(* Binary rounding of the floats is not modelled.  Time is counted in      *)
(* whole hours since the epoch; one handler reads the clock as one         *)
(* instant.  The local calendar date of an instant is its day number.      *)
(***************************************************************************)
EXTENDS Integers, Sequences, FiniteSets, TLC

VARIABLES
    pets,    \* PetWorld.pets: name -> Pet
    store,   \* the save file: whether it exists and the document in it
    now,     \* the reading of time.time()
    res,     \* what the last handler did: operation, pet, outcome
    nops     \* number of steps taken so far (bounds the exploration)

vars == <<pets, store, now, res, nops>>

----------------------------------------------------------------------------
(* Bounds of the exploration *)

MaxOps == 3
StartTime == 20

(* Inputs *)
Minutes == {-100, 30, 100}
Elapses == {1, 24}
RawNames == {<< >>, <<" ", "T">>, <<"R">>}
SpeciesIn == {"cat", "Dragon", "fish"}
ItemKeys == {"food", "toy", "energy_drink", "bone"}

----------------------------------------------------------------------------
(* Configuration constants *)

Scale == 100

(* the hourly rates 2.0, 1.0 and 0.5, in hundredths *)
HUNGER_INCREASE_PER_HOUR == 200
ENERGY_RECOVER_PER_HOUR == 100
HAPPINESS_DECAY_PER_HOUR == 50
FEED_COST == 5
DAILY_REWARD_COINS == 20
PLAY_COIN_REWARD == 1
REST_COIN_REWARD == 1
RANDOM_GIFT_MIN == 1
RANDOM_GIFT_MAX == 5
LEVEL_UP_COINS == 20
XP_PER_LEVEL == 100
HOURS_PER_DAY == 24

NoneVal == "None"

SHOP_ITEMS ==
    [food |-> [price |-> 5, hunger_restore |-> 25, happiness |-> 5],
     toy |-> [price |-> 10, hunger_restore |-> 0, happiness |-> 20, energy_cost |-> 5],
     energy_drink |-> [price |-> 8, energy_restore |-> 30, happiness |-> 2]]

TEMPLATES ==
    [cat |-> [max_energy |-> 100, base_hunger |-> 30, base_happiness |-> 60,
              evolve_at |-> 5, evolution |-> "Big Cat"],
     dog |-> [max_energy |-> 120, base_hunger |-> 35, base_happiness |-> 55,
              evolve_at |-> 6, evolution |-> "Wolfhound"],
     dragon |-> [max_energy |-> 200, base_hunger |-> 20, base_happiness |-> 65,
                 evolve_at |-> 4, evolution |-> "Elder Dragon"]]

(* The outcomes of one gift roll: 0 is "no gift", else the amount found. *)
Gifts == {0, RANDOM_GIFT_MIN, RANDOM_GIFT_MAX}

----------------------------------------------------------------------------
(* Arithmetic helpers *)

Min(a, b) == IF a <= b THEN a ELSE b
Max(a, b) == IF a >= b THEN a ELSE b

(* Python int(a / b) for b > 0: rounds toward zero. *)
TruncDiv(a, b) == IF a >= 0 THEN a \div b ELSE -((-a) \div b)

(* dict.get(key, default) *)
Get(d, k, default) == IF k \in DOMAIN d THEN d[k] ELSE default

(* time.strftime("%Y-%m-%d", time.localtime(t)) *)
DateOf(t) == t \div HOURS_PER_DAY

(* str.strip() on a name given as a sequence of characters *)
RECURSIVE StripLeft(_)
StripLeft(s) == IF s # << >> /\ Head(s) = " " THEN StripLeft(Tail(s)) ELSE s

RECURSIVE StripRight(_)
StripRight(s) ==
    IF s # << >> /\ s[Len(s)] = " " THEN StripRight(SubSeq(s, 1, Len(s) - 1)) ELSE s

Strip(s) == StripRight(StripLeft(s))

(* str.lower() on the species keys used as inputs *)
Lower(s) == CASE s = "Dragon" -> "dragon"
              [] s = "Cat" -> "cat"
              [] s = "Dog" -> "dog"
              [] OTHER -> s

----------------------------------------------------------------------------
(* Pet *)

(* Variant of create_pet that leaves hunger and happiness at the dataclass *)
(* defaults instead of the template's base values.                        *)
PetFactoryCreate_Defaults(name, species, t) ==
    LET spec == Lower(species)
        template == Get(TEMPLATES, spec, TEMPLATES["cat"])
    IN  [name |-> name,
         species |-> spec,
         hunger |-> 50 * Scale,
         happiness |-> 50 * Scale,
         energy |-> template.max_energy * Scale,
         max_energy |-> template.max_energy * Scale,
         level |-> 1,
         xp |-> 0,
         coins |-> 50,
         last_updated |-> t,
         evolve_at |-> template.evolve_at,
         evolution |-> template.evolution,
         evolved |-> FALSE,
         last_daily_claim |-> 0,
         last_gift_time |-> 0,
         last_gift_amount |-> 0]

PetFactoryCreate(name, species, t) ==
    LET spec == Lower(species)
        template == Get(TEMPLATES, spec, TEMPLATES["cat"])
    IN  [name |-> name,
         species |-> spec,
         hunger |-> template.base_hunger * Scale,
         happiness |-> template.base_happiness * Scale,
         energy |-> template.max_energy * Scale,
         max_energy |-> template.max_energy * Scale,
         level |-> 1,
         xp |-> 0,
         coins |-> 50,
         last_updated |-> t,
         evolve_at |-> template.evolve_at,
         evolution |-> template.evolution,
         evolved |-> FALSE,
         last_daily_claim |-> 0,
         last_gift_time |-> 0,
         last_gift_amount |-> 0]

(* Variant of _apply_time_decay that tests hunger and energy as they were *)
(* before the step.                                                      *)
ApplyTimeDecay_OldValues(p, hours) ==
    IF hours <= 0 THEN p
    ELSE LET h == Min(100 * Scale, p.hunger + HUNGER_INCREASE_PER_HOUR * hours)
             e == Max(0, Min(p.max_energy, p.energy + ENERGY_RECOVER_PER_HOUR * hours))
             hp == IF p.hunger > 70 * Scale \/ p.energy < 20 * Scale
                   THEN Max(0, p.happiness - HAPPINESS_DECAY_PER_HOUR * hours)
                   ELSE p.happiness
         IN  [p EXCEPT !.hunger = h, !.energy = e, !.happiness = hp]

(* Pet._apply_time_decay, with seconds given in hours *)
ApplyTimeDecay(p, hours) ==
    IF hours <= 0 THEN p
    ELSE LET h == Min(100 * Scale, p.hunger + HUNGER_INCREASE_PER_HOUR * hours)
             e == Max(0, Min(p.max_energy, p.energy + ENERGY_RECOVER_PER_HOUR * hours))
             hp == IF h > 70 * Scale \/ e < 20 * Scale
                   THEN Max(0, p.happiness - HAPPINESS_DECAY_PER_HOUR * hours)
                   ELSE p.happiness
         IN  [p EXCEPT !.hunger = h, !.energy = e, !.happiness = hp]

(* Pet._maybe_random_gift: gift is the outcome of the roll *)
MaybeRandomGift(p, gift, t) ==
    IF gift > 0
    THEN [p EXCEPT !.coins = @ + gift, !.last_gift_time = t, !.last_gift_amount = gift]
    ELSE p

(* Variant of refresh whose guard is gone: it acts at any clock reading. *)
Refresh_NoGuard(p, t, gift) ==
    [MaybeRandomGift(ApplyTimeDecay(p, t - p.last_updated), gift, t) EXCEPT !.last_updated = t]

(* Pet.refresh *)
Refresh(p, t, gift) ==
    LET elapsed == t - p.last_updated
    IN  IF elapsed > 0
        THEN [MaybeRandomGift(ApplyTimeDecay(p, elapsed), gift, t) EXCEPT !.last_updated = t]
        ELSE p

(* Variant of the level-up loop that runs at most once. *)
LevelUpLoop_Once(p) ==
    IF p.xp >= XP_PER_LEVEL
    THEN [p EXCEPT !.xp = @ - XP_PER_LEVEL, !.level = @ + 1, !.coins = @ + LEVEL_UP_COINS]
    ELSE p

(* Pet._gain_xp: the level-up loop *)
RECURSIVE LevelUpLoop(_)
LevelUpLoop(p) ==
    IF p.xp >= XP_PER_LEVEL
    THEN LevelUpLoop([p EXCEPT !.xp = @ - XP_PER_LEVEL,
                               !.level = @ + 1,
                               !.coins = @ + LEVEL_UP_COINS])
    ELSE p

(* Variant of _gain_xp that pays a negative XP balance with a level. *)
GainXp_Borrow(p, amount) ==
    LET q == [p EXCEPT !.xp = @ + amount]
    IN  IF q.xp < 0
        THEN [q EXCEPT !.xp = @ + XP_PER_LEVEL, !.level = @ - 1]
        ELSE IF q.xp >= XP_PER_LEVEL
        THEN [q EXCEPT !.xp = @ - XP_PER_LEVEL, !.level = @ + 1,
                       !.coins = @ + LEVEL_UP_COINS,
                       !.evolved = @ \/ q.level + 1 >= q.evolve_at]
        ELSE q

(* Variant of _gain_xp in which evolving also enlarges the energy ceiling. *)
GainXp_EvolveBoost(p, amount) ==
    LET q == LevelUpLoop([p EXCEPT !.xp = @ + amount])
        leveled_up == q.level # p.level
    IN  IF leveled_up /\ ~q.evolved /\ q.level >= q.evolve_at
        THEN [q EXCEPT !.evolved = TRUE, !.max_energy = @ + 50 * Scale]
        ELSE q

(* Variant of _gain_xp that evolves only on landing exactly on evolve_at. *)
GainXp_EvolveExact(p, amount) ==
    LET q == LevelUpLoop([p EXCEPT !.xp = @ + amount])
        leveled_up == q.level # p.level
    IN  IF leveled_up /\ ~q.evolved /\ q.level = q.evolve_at
        THEN [q EXCEPT !.evolved = TRUE]
        ELSE q

GainXp(p, amount) ==
    LET q == LevelUpLoop([p EXCEPT !.xp = @ + amount])
        leveled_up == q.level # p.level
    IN  IF leveled_up /\ ~q.evolved /\ q.level >= q.evolve_at
        THEN [q EXCEPT !.evolved = TRUE]
        ELSE q

(* Each action yields the flag it returns, the pet it leaves and the XP   *)
(* amount it handed to _gain_xp.                                          *)
Outcome(ok, p, gain) == [ok |-> ok, pet |-> p, gain |-> gain]

(* Variant of feed that charges without looking at the balance. *)
Feed_NoCoinCheck(p0, use_item, food_strength, t, gift) ==
    LET p == Refresh(p0, t, gift)
        paid == IF use_item THEN p ELSE [p EXCEPT !.coins = @ - FEED_COST]
        fed == [paid EXCEPT
                   !.hunger = Max(0, @ - food_strength * Scale),
                   !.happiness = Min(100 * Scale, @ + (food_strength * 2 * Scale) \div 10)]
    IN  Outcome(TRUE, GainXp(fed, 10), 10)

(* Pet.feed *)
Feed(p0, use_item, food_strength, t, gift) ==
    LET p == Refresh(p0, t, gift)
    IN  IF ~use_item /\ p.coins < FEED_COST
        THEN Outcome(FALSE, p, 0)
        ELSE LET paid == IF use_item THEN p ELSE [p EXCEPT !.coins = @ - FEED_COST]
                 fed == [paid EXCEPT
                            !.hunger = Max(0, @ - food_strength * Scale),
                            !.happiness = Min(100 * Scale, @ + (food_strength * 2 * Scale) \div 10)]
             IN  Outcome(TRUE, GainXp(fed, 10), 10)

(* Pet.play *)
Play(p0, minutes, t, gift) ==
    LET p == Refresh(p0, t, gift)
        energy_cost == (minutes * 5 * Scale) \div 10
        gain == 15 + TruncDiv(minutes, 5)
    IN  IF p.energy < energy_cost
        THEN Outcome(FALSE, p, 0)
        ELSE Outcome(TRUE,
                     GainXp([p EXCEPT
                                !.energy = Max(0, @ - energy_cost),
                                !.happiness = Min(100 * Scale, @ + (minutes * 6 * Scale) \div 10),
                                !.coins = @ + PLAY_COIN_REWARD],
                            gain),
                     gain)

(* Pet.rest *)
Rest(p0, minutes, t, gift) ==
    LET p == Refresh(p0, t, gift)
        energy_gain == (minutes * 8 * Scale) \div 10
    IN  Outcome(TRUE,
                [p EXCEPT
                    !.energy = Min(p.max_energy, @ + energy_gain),
                    !.happiness = Min(100 * Scale, @ + (minutes * 3 * Scale) \div 100),
                    !.coins = @ + REST_COIN_REWARD],
                0)

(* Variant of daily_reward that compares the instants, not their dates. *)
DailyReward_ByInstant(p, t) ==
    IF p.last_daily_claim # t
    THEN Outcome(TRUE,
                 [p EXCEPT !.coins = @ + DAILY_REWARD_COINS, !.last_daily_claim = t],
                 0)
    ELSE Outcome(FALSE, p, 0)

(* Pet.daily_reward *)
DailyReward(p, t) ==
    LET today == DateOf(t)
        claimed_today == p.last_daily_claim # 0 /\ DateOf(p.last_daily_claim) = today
    IN  IF ~claimed_today
        THEN Outcome(TRUE,
                     [p EXCEPT !.coins = @ + DAILY_REWARD_COINS, !.last_daily_claim = t],
                     0)
        ELSE Outcome(FALSE, p, 0)

(* Variant of do_job that looks at the duration after the energy. *)
DoJob_LateCheck(p0, minutes, t, gift) ==
    LET p == Refresh(p0, t, gift)
        energy_cost == (minutes * 3 * Scale) \div 10
        spent == [p EXCEPT !.energy = Max(0, @ - energy_cost)]
    IN  IF p.energy < energy_cost THEN Outcome(FALSE, p, 0)
        ELSE IF minutes <= 0 THEN Outcome(FALSE, spent, 0)
        ELSE Outcome(TRUE,
                     GainXp([spent EXCEPT !.coins = @ + minutes \div 5],
                            Max(1, minutes \div 10)),
                     Max(1, minutes \div 10))

(* Variant of do_job that charges the energy play charges. *)
DoJob_PlayCost(p0, minutes, t, gift) ==
    LET p == Refresh(p0, t, gift)
        energy_cost == (minutes * 5 * Scale) \div 10
        earned == minutes \div 5
        xp_gain == Max(1, minutes \div 10)
    IN  IF minutes <= 0 THEN Outcome(FALSE, p, 0)
        ELSE IF p.energy < energy_cost THEN Outcome(FALSE, p, 0)
        ELSE Outcome(TRUE,
                     GainXp([p EXCEPT
                                !.energy = Max(0, @ - energy_cost),
                                !.coins = @ + earned],
                            xp_gain),
                     xp_gain)

(* Pet.do_job *)
DoJob(p0, minutes, t, gift) ==
    LET p == Refresh(p0, t, gift)
        energy_cost == (minutes * 3 * Scale) \div 10
        earned == minutes \div 5
        xp_gain == Max(1, minutes \div 10)
    IN  IF minutes <= 0 THEN Outcome(FALSE, p, 0)
        ELSE IF p.energy < energy_cost THEN Outcome(FALSE, p, 0)
        ELSE Outcome(TRUE,
                     GainXp([p EXCEPT
                                !.energy = Max(0, @ - energy_cost),
                                !.coins = @ + earned],
                            xp_gain),
                     xp_gain)

(* Variant of buy_item that keeps the toy's price when the pet is too tired. *)
BuyItem_NoRefund(p, item_key) ==
    IF item_key \notin DOMAIN SHOP_ITEMS THEN Outcome(FALSE, p, 0)
    ELSE LET item == SHOP_ITEMS[item_key]
         IN  IF p.coins < item.price THEN Outcome(FALSE, p, 0)
             ELSE LET paid == [p EXCEPT !.coins = @ - item.price]
                  IN  CASE item_key = "food" ->
                             Outcome(TRUE,
                                 GainXp([paid EXCEPT
                                     !.hunger = Max(0, @ - item.hunger_restore * Scale),
                                     !.happiness = Min(100 * Scale,
                                         @ + Get(item, "happiness", 0) * Scale)], 5),
                                 5)
                        [] item_key = "toy" ->
                             LET energy_cost == Get(item, "energy_cost", 0) * Scale
                             IN  IF paid.energy < energy_cost
                                 THEN Outcome(FALSE, paid, 0)
                                 ELSE Outcome(TRUE,
                                         GainXp([paid EXCEPT
                                             !.energy = Max(0, @ - energy_cost),
                                             !.happiness = Min(100 * Scale,
                                                 @ + item.happiness * Scale)], 10),
                                         10)
                        [] item_key = "energy_drink" ->
                             Outcome(TRUE,
                                 GainXp([paid EXCEPT
                                     !.energy = Min(paid.max_energy,
                                         @ + item.energy_restore * Scale),
                                     !.happiness = Min(100 * Scale,
                                         @ + Get(item, "happiness", 0) * Scale)], 7),
                                 7)
                        [] OTHER -> Outcome(FALSE, paid, 0)

(* Pet.buy_item *)
BuyItem(p, item_key) ==
    IF item_key \notin DOMAIN SHOP_ITEMS THEN Outcome(FALSE, p, 0)
    ELSE LET item == SHOP_ITEMS[item_key]
         IN  IF p.coins < item.price THEN Outcome(FALSE, p, 0)
             ELSE LET paid == [p EXCEPT !.coins = @ - item.price]
                  IN  CASE item_key = "food" ->
                             Outcome(TRUE,
                                 GainXp([paid EXCEPT
                                     !.hunger = Max(0, @ - item.hunger_restore * Scale),
                                     !.happiness = Min(100 * Scale,
                                         @ + Get(item, "happiness", 0) * Scale)], 5),
                                 5)
                        [] item_key = "toy" ->
                             LET energy_cost == Get(item, "energy_cost", 0) * Scale
                             IN  IF paid.energy < energy_cost
                                 THEN Outcome(FALSE, [paid EXCEPT !.coins = @ + item.price], 0)
                                 ELSE Outcome(TRUE,
                                         GainXp([paid EXCEPT
                                             !.energy = Max(0, @ - energy_cost),
                                             !.happiness = Min(100 * Scale,
                                                 @ + item.happiness * Scale)], 10),
                                         10)
                        [] item_key = "energy_drink" ->
                             Outcome(TRUE,
                                 GainXp([paid EXCEPT
                                     !.energy = Min(paid.max_energy,
                                         @ + item.energy_restore * Scale),
                                     !.happiness = Min(100 * Scale,
                                         @ + Get(item, "happiness", 0) * Scale)], 7),
                                 7)
                        [] OTHER -> Outcome(FALSE, paid, 0)

----------------------------------------------------------------------------
(* Persistence codec *)

(* Pet.to_dict (dataclasses.asdict) *)
ToDict(p) ==
    [name |-> p.name, species |-> p.species, hunger |-> p.hunger,
     happiness |-> p.happiness, energy |-> p.energy, max_energy |-> p.max_energy,
     level |-> p.level, xp |-> p.xp, coins |-> p.coins,
     last_updated |-> p.last_updated, evolve_at |-> p.evolve_at,
     evolution |-> p.evolution, evolved |-> p.evolved,
     last_daily_claim |-> p.last_daily_claim, last_gift_time |-> p.last_gift_time,
     last_gift_amount |-> p.last_gift_amount]

(* Variant of from_dict that reads energy from the max_energy key. *)
FromDict_EnergyKey(data, t) ==
    [name |-> Get(data, "name", NoneVal),
     species |-> Get(data, "species", NoneVal),
     hunger |-> Get(data, "hunger", 50 * Scale),
     happiness |-> Get(data, "happiness", 50 * Scale),
     energy |-> Get(data, "max_energy", 100 * Scale),
     max_energy |-> Get(data, "max_energy", 100 * Scale),
     level |-> Get(data, "level", 1),
     xp |-> Get(data, "xp", 0),
     coins |-> Get(data, "coins", 50),
     last_updated |-> Get(data, "last_updated", t),
     evolve_at |-> Get(data, "evolve_at", 999),
     evolution |-> Get(data, "evolution", NoneVal),
     evolved |-> Get(data, "evolved", FALSE),
     last_daily_claim |-> Get(data, "last_daily_claim", 0),
     last_gift_time |-> Get(data, "last_gift_time", 0),
     last_gift_amount |-> Get(data, "last_gift_amount", 0)]

(* Pet.from_dict: a missing key takes its default *)
FromDict(data, t) ==
    [name |-> Get(data, "name", NoneVal),
     species |-> Get(data, "species", NoneVal),
     hunger |-> Get(data, "hunger", 50 * Scale),
     happiness |-> Get(data, "happiness", 50 * Scale),
     energy |-> Get(data, "energy", Get(data, "max_energy", 100 * Scale)),
     max_energy |-> Get(data, "max_energy", 100 * Scale),
     level |-> Get(data, "level", 1),
     xp |-> Get(data, "xp", 0),
     coins |-> Get(data, "coins", 50),
     last_updated |-> Get(data, "last_updated", t),
     evolve_at |-> Get(data, "evolve_at", 999),
     evolution |-> Get(data, "evolution", NoneVal),
     evolved |-> Get(data, "evolved", FALSE),
     last_daily_claim |-> Get(data, "last_daily_claim", 0),
     last_gift_time |-> Get(data, "last_gift_time", 0),
     last_gift_amount |-> Get(data, "last_gift_amount", 0)]

EmptyPets == << >>
NoStore == [exists |-> FALSE, doc |-> << >>]

(* PetWorld.save: the whole registry, written over the file *)
Save(ps) == [exists |-> TRUE, doc |-> [n \in DOMAIN ps |-> ToDict(ps[n])]]

(* A stored value that is not a number, a string of letters for example. *)
(* Times are counted from 0, so no number of the model equals it.        *)
Malformed == -1

(* float(v) returns rather than raises *)
IsNumber(v) == v # Malformed

(* A save file is readable when json.load can parse it into a document *)
Readable(st) == "doc" \in DOMAIN st

(* A save file that holds something other than JSON *)
Unparsable == [exists |-> TRUE, text |-> "not json"]

(* json.load raises, and nothing in load or __init__ catches it *)
LoadRaises(st) == st.exists /\ ~Readable(st)

(* Variant of load that takes last_updated as from_dict left it. *)
Load_TrustStored(ps, st, t) ==
    IF ~st.exists THEN ps
    ELSE [n \in DOMAIN ps \cup DOMAIN st.doc |->
            IF n \in DOMAIN st.doc
            THEN FromDict(st.doc[n], t)
            ELSE ps[n]]

(* PetWorld.load of a readable file into the registry ps: every entry is *)
(* rebuilt by from_dict, then last_updated is read again through float() *)
(* with the current time for a missing or unconvertible value            *)
Load(ps, st, t) ==
    IF ~st.exists THEN ps
    ELSE [n \in DOMAIN ps \cup DOMAIN st.doc |->
            IF n \in DOMAIN st.doc
            THEN [FromDict(st.doc[n], t) EXCEPT
                     !.last_updated =
                        LET v == Get(st.doc[n], "last_updated", t)
                        IN  IF IsNumber(v) THEN v ELSE t]
            ELSE ps[n]]

----------------------------------------------------------------------------
(* The request layer: one action per handler.  A handler calls one engine *)
(* method and saves the registry when the method reports success.         *)

Result(op, name, arg, ok, gain, gift) ==
    [op |-> op, name |-> name, arg |-> arg, ok |-> ok, gain |-> gain, gift |-> gift]

(* The gift a refresh at time t hands out: the roll happens only when time *)
(* has elapsed.                                                            *)
GiftFound(p, t, gift) == IF t - p.last_updated > 0 THEN gift ELSE 0

Step == nops < MaxOps /\ nops' = nops + 1

(* Variant of the handlers that saves whatever the method returned. *)
Settle_AlwaysSave(op, n, arg, r, gift) ==
    /\ pets' = [pets EXCEPT ![n] = r.pet]
    /\ store' = Save(pets')
    /\ res' = Result(op, n, arg, r.ok, r.gain, gift)
    /\ UNCHANGED now

(* What every pet handler does with the outcome r of the engine method *)
Settle(op, n, arg, r, gift) ==
    /\ pets' = [pets EXCEPT ![n] = r.pet]
    /\ store' = IF r.ok THEN Save(pets') ELSE store
    /\ res' = Result(op, n, arg, r.ok, r.gain, gift)
    /\ UNCHANGED now

(* Earlier sessions.  The program may start on a save file that an earlier *)
(* run of it wrote.  Each document below is what that run saved after the *)
(* listed handler calls on a newly created pet, all at time StartTime: it *)
(* is computed with the operators above, so it is a file the program      *)
(* writes.                                                                *)
Call(op, arg) == [op |-> op, arg |-> arg]

RunCall(p, c, t) ==
    CASE c.op = "feed" -> Feed(p, FALSE, 20, t, 0).pet
      [] c.op = "play" -> Play(p, c.arg, t, 0).pet
      [] c.op = "rest" -> Rest(p, c.arg, t, 0).pet
      [] c.op = "work" -> DoJob(p, c.arg, t, 0).pet
      [] c.op = "buy" -> BuyItem(p, c.arg).pet

RECURSIVE RunCalls(_, _, _)
RunCalls(p, calls, t) ==
    IF calls = << >> THEN p ELSE RunCalls(RunCall(p, Head(calls), t), Tail(calls), t)

(* four toys and an energy drink: 2 coins are left *)
SpenderCalls ==
    <<Call("buy", "toy"), Call("buy", "toy"), Call("buy", "toy"), Call("buy", "toy"),
      Call("buy", "energy_drink")>>

(* eight long plays with three rests between them: level 3, 80 XP, no energy *)
PlayerCalls ==
    <<Call("play", 100), Call("play", 100), Call("play", 100), Call("play", 100),
      Call("rest", 100), Call("rest", 100), Call("rest", 100),
      Call("play", 100), Call("play", 100), Call("play", 100), Call("play", 100)>>

SessionStore(name, species, calls) ==
    LET p == RunCalls(PetFactoryCreate(name, species, StartTime), calls, StartTime)
    IN  Save([n \in {name} |-> p])

EarlierStores ==
    {NoStore,
     SessionStore(<<"T">>, "cat", SpenderCalls),
     SessionStore(<<"R">>, "dragon", PlayerCalls)}

(* PetWorld.__init__: an empty registry, then the save file if there is one *)
Init ==
    /\ store \in EarlierStores
    /\ pets = Load(EmptyPets, store, StartTime)
    /\ now = StartTime
    /\ res = Result("init", << >>, 0, TRUE, 0, 0)
    /\ nops = 0

(* The clock moves on *)
Tick(d) ==
    /\ Step
    /\ now' = now + d
    /\ res' = Result("tick", << >>, 0, TRUE, 0, 0)
    /\ UNCHANGED <<pets, store>>

(* The clock is set back *)
ClockBack(d) ==
    /\ Step
    /\ now - d >= 1
    /\ now' = now - d
    /\ res' = Result("back", << >>, 0, TRUE, 0, 0)
    /\ UNCHANGED <<pets, store>>

(* The process starts again: PetWorld() loads the save file if there is one *)
Restart ==
    /\ Step
    /\ IF LoadRaises(store)
       THEN /\ pets' = EmptyPets
            /\ res' = Result("restart", << >>, 0, FALSE, 0, 0)
       ELSE /\ pets' = Load(EmptyPets, store, now)
            /\ res' = Result("restart", << >>, 0, TRUE, 0, 0)
    /\ UNCHANGED <<store, now>>

(* Variant of create that does not look for the name in the registry. *)
Create_Overwrite(raw, species_in) ==
    /\ Step
    /\ LET name == Strip(Strip(raw))
           ok == name # << >>
       IN  /\ pets' = IF ok
                      THEN [n \in DOMAIN pets \cup {name} |->
                              IF n = name THEN PetFactoryCreate(name, Lower(species_in), now)
                              ELSE pets[n]]
                      ELSE pets
           /\ store' = IF ok THEN Save(pets') ELSE store
           /\ res' = Result("create", name, species_in, ok, 0, 0)
    /\ UNCHANGED now

(* app.create -> PetWorld.create_pet *)
Create(raw, species_in) ==
    /\ Step
    /\ LET name == Strip(Strip(raw))
           ok == name # << >> /\ name \notin DOMAIN pets
       IN  /\ pets' = IF ok
                      THEN [n \in DOMAIN pets \cup {name} |->
                              IF n = name THEN PetFactoryCreate(name, Lower(species_in), now)
                              ELSE pets[n]]
                      ELSE pets
           /\ store' = IF ok THEN Save(pets') ELSE store
           /\ res' = Result("create", name, species_in, ok, 0, 0)
    /\ UNCHANGED now

(* app.delete -> PetWorld.delete_pet *)
Delete(name) ==
    /\ Step
    /\ LET ok == name \in DOMAIN pets
       IN  /\ pets' = IF ok THEN [n \in DOMAIN pets \ {name} |-> pets[n]] ELSE pets
           /\ store' = IF ok THEN Save(pets') ELSE store
           /\ res' = Result("delete", name, 0, ok, 0, 0)
    /\ UNCHANGED now

(* app.index: a status snapshot of every pet *)
Index(gifts) ==
    /\ Step
    /\ pets # EmptyPets
    /\ pets' = [n \in DOMAIN pets |-> Refresh(pets[n], now, gifts[n])]
    /\ res' = Result("index", << >>, 0, TRUE, 0, 0)
    /\ UNCHANGED <<store, now>>

(* app.pet_page -> Pet.status *)
PetPage(n, gift) ==
    /\ Step
    /\ pets' = [pets EXCEPT ![n] = Refresh(pets[n], now, gift)]
    /\ res' = Result("status", n, 0, TRUE, 0, GiftFound(pets[n], now, gift))
    /\ UNCHANGED <<store, now>>

(* app.feed -> Pet.feed() *)
FeedPet(n, gift) ==
    /\ Step
    /\ Settle("feed", n, 0, Feed(pets[n], FALSE, 20, now, gift), GiftFound(pets[n], now, gift))

(* app.play -> Pet.play(minutes) *)
PlayPet(n, minutes, gift) ==
    /\ Step
    /\ Settle("play", n, minutes, Play(pets[n], minutes, now, gift), GiftFound(pets[n], now, gift))

(* app.rest -> Pet.rest(minutes) *)
RestPet(n, minutes, gift) ==
    /\ Step
    /\ Settle("rest", n, minutes, Rest(pets[n], minutes, now, gift), GiftFound(pets[n], now, gift))

(* app.work -> Pet.do_job(minutes) *)
WorkPet(n, minutes, gift) ==
    /\ Step
    /\ Settle("work", n, minutes, DoJob(pets[n], minutes, now, gift), GiftFound(pets[n], now, gift))

(* app.buy -> Pet.buy_item(item_key) *)
BuyPet(n, item_key) ==
    /\ Step
    /\ Settle("buy", n, item_key, BuyItem(pets[n], item_key), 0)

(* app.daily_reward -> Pet.daily_reward() *)
DailyPet(n) ==
    /\ Step
    /\ Settle("daily", n, 0, DailyReward(pets[n], now), 0)

Next ==
    \/ \E d \in Elapses : Tick(d)
    \/ Restart
    \/ \E raw \in RawNames, s \in SpeciesIn : Create(raw, s)
    \/ \E raw \in RawNames : Delete(Strip(raw))
    \/ \E gifts \in [DOMAIN pets -> Gifts] : Index(gifts)
    \/ \E n \in DOMAIN pets : \E g \in Gifts : PetPage(n, g)
    \/ \E n \in DOMAIN pets : \E g \in Gifts : FeedPet(n, g)
    \/ \E n \in DOMAIN pets : \E m \in Minutes : \E g \in Gifts : PlayPet(n, m, g)
    \/ \E n \in DOMAIN pets : \E m \in Minutes : \E g \in Gifts : RestPet(n, m, g)
    \/ \E n \in DOMAIN pets : \E m \in Minutes : \E g \in Gifts : WorkPet(n, m, g)
    \/ \E n \in DOMAIN pets : \E k \in ItemKeys : BuyPet(n, k)
    \/ \E n \in DOMAIN pets : DailyPet(n)

Spec == Init /\ [][Next]_vars

(* The same program under a clock that may also be set back *)
NextSkew == Next \/ \E d \in Elapses : ClockBack(d)

SpecSkew == Init /\ [][NextSkew]_vars

----------------------------------------------------------------------------
(* The XP ladder on its own: _gain_xp applied to a newly created pet *)

XpGains == {-5, 5, 10, 35, 250}

InitXp ==
    /\ \E s \in {"cat", "dragon"} :
          pets = [n \in {<<"T">>} |-> PetFactoryCreate(n, s, StartTime)]
    /\ store = NoStore
    /\ now = StartTime
    /\ res = Result("init", << >>, 0, TRUE, 0, 0)
    /\ nops = 0

GainStep(n, amount) ==
    /\ Step
    /\ pets' = [pets EXCEPT ![n] = GainXp(@, amount)]
    /\ res' = Result("gain", n, amount, TRUE, amount, 0)
    /\ UNCHANGED <<store, now>>

NextXp == \E n \in DOMAIN pets : \E a \in XpGains : GainStep(n, a)

SpecXp == InitXp /\ [][NextXp]_vars

----------------------------------------------------------------------------
(* Properties *)

PetOps == {"feed", "play", "rest", "work", "buy", "daily"}

(* The last step was the handler op acting on a pet of the registry *)
Did(op) == res.op = op /\ res.name \in DOMAIN pets

(* C1: in every reachable state hunger and happiness of every pet are in  *)
(* [0,100] and its energy is in [0, max_energy].                          *)
StatsInRange ==
    \A n \in DOMAIN pets :
        /\ 0 <= pets[n].hunger /\ pets[n].hunger <= 100 * Scale
        /\ 0 <= pets[n].happiness /\ pets[n].happiness <= 100 * Scale
        /\ 0 <= pets[n].energy /\ pets[n].energy <= pets[n].max_energy

(* C2: after any action 0 <= xp < 100 for every pet.                      *)
XpNormalized ==
    \A n \in DOMAIN pets : 0 <= pets[n].xp /\ pets[n].xp < XP_PER_LEVEL

(* C3: coins never go below 0, and a feed or a buy whose cost exceeds the *)
(* coins the pet has when the cost is looked at is rejected with nothing  *)
(* charged (a gift found by the same call stays).                         *)
CoinsNeverNegative ==
    [][/\ \A n \in DOMAIN pets' : pets'[n].coins >= 0
       /\ \A n \in DOMAIN pets :
            /\ (res'.op = "feed" /\ res'.name = n
                    /\ pets[n].coins + res'.gift < FEED_COST)
               => (~res'.ok /\ pets'[n].coins = pets[n].coins + res'.gift)
            /\ (res'.op = "buy" /\ res'.name = n /\ res'.arg \in DOMAIN SHOP_ITEMS
                    /\ pets[n].coins < SHOP_ITEMS[res'.arg].price)
               => (~res'.ok /\ pets'[n].coins = pets[n].coins)]_vars

FeedRejectedForCoins ==
    Did("feed") /\ ~res.ok /\ pets[res.name].coins < FEED_COST

(* C4 as stated: a failed feed, play, work, buy or claimDaily leaves every *)
(* attribute of the pet as it was before the call.                        *)
FailureChangesNothing ==
    [][(res'.op \in {"feed", "play", "work", "buy", "daily"} /\ ~res'.ok)
          => pets' = pets]_vars

(* C4 amended: a failed feed, play or work leaves the pet as the decay    *)
(* step it began with left it; a failed buy or claimDaily, which run no   *)
(* decay step, leaves it as it was before the call.                       *)
FailureLeavesOnlyDecay ==
    [][(res'.op \in {"feed", "play", "work", "buy", "daily"} /\ ~res'.ok)
          => /\ res'.name \in DOMAIN pets
             /\ pets' = [pets EXCEPT ![res'.name] =
                           IF res'.op \in {"feed", "play", "work"}
                           THEN Refresh(@, now, res'.gift)
                           ELSE @]]_vars

FailedAfterDecay ==
    /\ res.op \in {"feed", "play", "work"} /\ res.name \in DOMAIN pets
    /\ ~res.ok
    /\ res.name \in DOMAIN store.doc
    /\ pets[res.name].last_updated = now
    /\ store.doc[res.name].last_updated < now

(* C5: from one state to the next the level of a pet never decreases and  *)
(* evolved, once true, stays true.                                        *)
LevelAndEvolvedMonotone ==
    [][\A n \in DOMAIN pets \cap DOMAIN pets' :
          /\ pets'[n].level >= pets[n].level
          /\ pets[n].evolved => pets'[n].evolved]_vars

EvolvedReached ==
    \E n \in DOMAIN pets : pets[n].evolved /\ pets[n].level >= pets[n].evolve_at

(* C6: a status snapshot taken when the clock reads no more than          *)
(* last_updated changes no attribute of the pet.                          *)
RefreshWithoutElapsedIsNoop ==
    [][\A n \in DOMAIN pets :
          ((res'.op = "index" \/ (res'.op = "status" /\ res'.name = n))
              /\ now <= pets[n].last_updated)
          => (n \in DOMAIN pets' /\ pets'[n] = pets[n])]_vars

StatusUnderSkew ==
    Did("status") /\ now < pets[res.name].last_updated

(* C7: each of feed, play, rest, work, buy, claimDaily and the status     *)
(* snapshot, called after time has elapsed, moves last_updated to now.    *)
DecayRunsFirst ==
    [][\A n \in DOMAIN pets :
          (res'.op \in PetOps \cup {"status"} /\ res'.name = n
              /\ pets[n].last_updated < now)
          => pets'[n].last_updated = now]_vars

(* C8: a claimDaily on the date of the last successful claim fails and    *)
(* leaves coins and last_daily_claim alone; any other claimDaily succeeds, *)
(* adds exactly 20 coins and falls on a later date than the last claim.   *)
DailyOncePerDate ==
    [][\A n \in DOMAIN pets :
          (res'.op = "daily" /\ res'.name = n)
          => IF pets[n].last_daily_claim # 0
                /\ DateOf(pets[n].last_daily_claim) = DateOf(now)
             THEN /\ ~res'.ok
                  /\ pets'[n].coins = pets[n].coins
                  /\ pets'[n].last_daily_claim = pets[n].last_daily_claim
             ELSE /\ res'.ok
                  /\ pets'[n].coins = pets[n].coins + DAILY_REWARD_COINS
                  /\ pets'[n].last_daily_claim = now
                  /\ (pets[n].last_daily_claim = 0
                        \/ DateOf(pets[n].last_daily_claim) < DateOf(now))]_vars

SecondClaimRejected ==
    Did("daily") /\ ~res.ok /\ DateOf(pets[res.name].last_daily_claim) = DateOf(now)

(* C9: each XP gain adds its amount to 100*(level-1) + xp, one level per  *)
(* 100 XP crossed and 20 coins per level.                                 *)
XpAccounting ==
    [][\A n \in DOMAIN pets :
          (res'.op = "gain" /\ res'.name = n)
          => LET p == pets[n]
                 q == pets'[n]
             IN  /\ XP_PER_LEVEL * (q.level - 1) + q.xp
                        = XP_PER_LEVEL * (p.level - 1) + p.xp + res'.gain
                 /\ q.coins = p.coins + LEVEL_UP_COINS * (q.level - p.level)
                 /\ (p.xp + res'.gain >= 0)
                        => q.level - p.level = (p.xp + res'.gain) \div XP_PER_LEVEL]_vars

SeveralLevelsInOneGain ==
    /\ Did("gain")
    /\ res.gain = 250
    /\ pets[res.name].level >= 4
    /\ pets[res.name].coins = 50 + LEVEL_UP_COINS * (pets[res.name].level - 1)

(* C10: saving the registry and loading the document into an empty        *)
(* registry gives back the same names with every attribute equal.         *)
SaveLoadRoundTrip ==
    Load(EmptyPets, Save(pets), now) = pets

RestartedWithHistory ==
    /\ res.op = "restart"
    /\ \E n \in DOMAIN pets :
          /\ pets[n].level > 1
          /\ pets[n].last_gift_amount > 0
          /\ pets[n].energy # pets[n].max_energy

(* C11: create fails and changes nothing when the trimmed name is empty   *)
(* or taken, and else adds that one pet; delete succeeds exactly when the *)
(* name is present and removes that one entry; no pet action adds or      *)
(* removes a name, so a name is present exactly when the last successful  *)
(* create or delete on it was a create.                                   *)
RegistryCreateDelete ==
    [][/\ res'.op = "create" =>
            /\ res'.ok <=> (res'.name # << >> /\ res'.name \notin DOMAIN pets)
            /\ ~res'.ok => pets' = pets
            /\ res'.ok =>
                 /\ DOMAIN pets' = DOMAIN pets \cup {res'.name}
                 /\ \A n \in DOMAIN pets : pets'[n] = pets[n]
                 /\ pets'[res'.name].level = 1 /\ pets'[res'.name].xp = 0
       /\ res'.op = "delete" =>
            /\ res'.ok <=> res'.name \in DOMAIN pets
            /\ DOMAIN pets' = DOMAIN pets \ {res'.name}
            /\ \A n \in DOMAIN pets' : pets'[n] = pets[n]
       /\ res'.op \in PetOps \cup {"status", "index", "tick"} =>
            DOMAIN pets' = DOMAIN pets]_vars

DuplicateCreateRejected ==
    /\ res.op = "create" /\ ~res.ok
    /\ res.name \in DOMAIN pets
    /\ pets[res.name].xp > 0

(* The pet as the decay step of the last call found and left it, seen     *)
(* from the step that made the call: n is the pet, the roll is res'.gift. *)
Decayed(n) == Refresh(pets[n], now, res'.gift)

(* C12 as stated: work succeeds exactly when minutes > 0 and the energy   *)
(* after decay is at least 0.3*minutes, and then lowers energy by         *)
(* 0.3*minutes, adds floor(minutes/5) coins and gains max(1, minutes div  *)
(* 10) XP.                                                                *)
WorkEffect ==
    [][\A n \in DOMAIN pets :
          (res'.op = "work" /\ res'.name = n)
          => LET p == Decayed(n)
                 q == pets'[n]
                 m == res'.arg
             IN  /\ res'.ok <=> (m > 0 /\ 10 * p.energy >= 3 * m * Scale)
                 /\ res'.ok =>
                      /\ 10 * q.energy = 10 * p.energy - 3 * m * Scale
                      /\ q.coins = p.coins + m \div 5
                      /\ res'.gain = Max(1, m \div 10)
                      /\ XP_PER_LEVEL * (q.level - 1) + q.xp
                            = XP_PER_LEVEL * (p.level - 1) + p.xp + res'.gain]_vars

(* C12 amended: the same, with the coins a level-up pays added: coins     *)
(* grow by floor(minutes/5) plus 20 for each level the XP gain crosses.   *)
WorkEffectWithLevelUp ==
    [][\A n \in DOMAIN pets :
          (res'.op = "work" /\ res'.name = n)
          => LET p == Decayed(n)
                 q == pets'[n]
                 m == res'.arg
             IN  /\ res'.ok <=> (m > 0 /\ 10 * p.energy >= 3 * m * Scale)
                 /\ res'.ok =>
                      /\ 10 * q.energy = 10 * p.energy - 3 * m * Scale
                      /\ q.coins = p.coins + m \div 5
                                     + LEVEL_UP_COINS * (q.level - p.level)
                      /\ res'.gain = Max(1, m \div 10)
                      /\ XP_PER_LEVEL * (q.level - 1) + q.xp
                            = XP_PER_LEVEL * (p.level - 1) + p.xp + res'.gain]_vars

(* work(100) on a newly created cat: energy 70, 20 coins and 10 XP more *)
WorkedHundredMinutes ==
    /\ Did("work") /\ res.ok /\ res.arg = 100
    /\ pets[res.name].species = "cat"
    /\ pets[res.name].energy = 70 * Scale
    /\ pets[res.name].coins = 50 + 20
    /\ pets[res.name].xp = 10 /\ pets[res.name].level = 1

(* The pet n is still exactly as create_pet made it. *)
AsCreated(n, species) ==
    pets[n] = PetFactoryCreate(n, species, pets[n].last_updated)

(* What C13 says of creation: a pet created as a cat starts with coins 50, *)
(* hunger 30, energy 100.                                                  *)
CatStart ==
    \A n \in DOMAIN pets' :
       (res'.op = "create" /\ res'.ok /\ res'.name = n /\ pets'[n].species = "cat")
       => /\ pets'[n].coins = 50
          /\ pets'[n].hunger = 30 * Scale
          /\ pets'[n].energy = 100 * Scale

(* C13 as stated: a cat starts with coins 50, hunger 30, energy 100, and a *)
(* feed on it by the shop-cost path succeeds and leaves coins = 45 and     *)
(* hunger = 10.                                                            *)
CatFeedScenario ==
    [][/\ CatStart
       /\ \A n \in DOMAIN pets :
             (res'.op = "feed" /\ res'.name = n /\ AsCreated(n, "cat"))
             => /\ res'.ok
                /\ pets'[n].coins = 45
                /\ pets'[n].hunger = 10 * Scale]_vars

(* C13 amended: the feed succeeds and leaves coins = 45 plus the gift the  *)
(* decay step found, and hunger = max(0, min(100, 30 + 2*hours) - 20) for  *)
(* the hours since creation: 45 and 10 when the feed follows at once.      *)
CatFeedScenarioWithDecay ==
    [][/\ CatStart
       /\ \A n \in DOMAIN pets :
             (res'.op = "feed" /\ res'.name = n /\ AsCreated(n, "cat"))
             => LET hours == Max(0, now - pets[n].last_updated)
                IN  /\ res'.ok
                    /\ pets'[n].coins = 45 + res'.gift
                    /\ pets'[n].hunger
                         = Max(0, Min(100 * Scale,
                                      30 * Scale + HUNGER_INCREASE_PER_HOUR * hours)
                                  - 20 * Scale)
                    /\ hours = 0 => /\ pets'[n].coins = 45
                                    /\ pets'[n].hunger = 10 * Scale]_vars

(* a cat fed right after its creation: coins 45, hunger 10 *)
CatFedAtOnce ==
    /\ Did("feed") /\ res.ok
    /\ pets[res.name].species = "cat"
    /\ pets[res.name].coins = 45
    /\ pets[res.name].hunger = 10 * Scale
    /\ pets[res.name].xp = 10 /\ pets[res.name].level = 1
    /\ pets[res.name].energy = 100 * Scale

(* The engine method each pet handler calls, by the handler's name *)
Act(p, op, arg, t, gift) ==
    CASE op = "feed" -> Feed(p, FALSE, 20, t, gift)
      [] op = "play" -> Play(p, arg, t, gift)
      [] op = "rest" -> Rest(p, arg, t, gift)
      [] op = "work" -> DoJob(p, arg, t, gift)
      [] op = "buy" -> BuyItem(p, arg)
      [] op = "daily" -> DailyReward(p, t)

(* The identity and template fields of a pet *)
Identity(p) ==
    [name |-> p.name, species |-> p.species, max_energy |-> p.max_energy,
     evolve_at |-> p.evolve_at, evolution |-> p.evolution]

(* A pet that can never evolve, otherwise equal to p *)
NeverEvolving(p) == [p EXCEPT !.evolve_at = 999]

(* C14: no operation on a pet (decay, feed, play, rest, work, buy, daily,  *)
(* status) changes its name, species, max_energy, evolve_at or evolution   *)
(* name; and evolving changes no numeric attribute: the same call on the   *)
(* same pet with an unreachable evolve_at returns the same flag and leaves *)
(* the same pet, the evolved flag and evolve_at aside.                     *)
IdentityKeptAndEvolutionCosmetic ==
    [][/\ res'.op \in PetOps \cup {"status", "index"} =>
             \A n \in DOMAIN pets :
                /\ n \in DOMAIN pets'
                /\ Identity(pets'[n]) = Identity(pets[n])
                /\ pets'[n].name = n
       /\ res'.op \in PetOps =>
             \A n \in DOMAIN pets :
                res'.name = n =>
                   LET q == pets'[n]
                       r == Act(NeverEvolving(pets[n]), res'.op, res'.arg, now, res'.gift)
                   IN  /\ r.ok = res'.ok
                       /\ [r.pet EXCEPT !.evolved = q.evolved,
                                        !.evolve_at = q.evolve_at] = q]_vars

(* a call whose XP gain took the pet to its evolve_at level and evolved it *)
EvolvedByThisCall ==
    /\ res.op \in PetOps /\ res.name \in DOMAIN pets /\ res.ok
    /\ pets[res.name].evolved
    /\ pets[res.name].level = pets[res.name].evolve_at
    /\ pets[res.name].xp < res.gain

(* C15: buy("toy") on a pet that can pay the toy's price but has less      *)
(* energy than the toy costs reports failure and leaves the pet exactly as *)
(* it was before the call: the price is given back in full.                *)
TiredToyBuyChangesNothing ==
    [][\A n \in DOMAIN pets :
          (/\ res'.op = "buy" /\ res'.name = n /\ res'.arg = "toy"
           /\ pets[n].coins >= SHOP_ITEMS.toy.price
           /\ pets[n].energy < SHOP_ITEMS.toy.energy_cost * Scale)
          => /\ ~res'.ok
             /\ pets' = pets
             /\ store' = store]_vars

(* a toy refused to a pet that has the coins but not the energy *)
ToyRefusedForEnergy ==
    /\ Did("buy") /\ res.arg = "toy" /\ ~res.ok
    /\ pets[res.name].coins >= SHOP_ITEMS.toy.price
    /\ pets[res.name].energy < SHOP_ITEMS.toy.energy_cost * Scale

(* C16: for every pet the registry created, after every action, level >=   *)
(* evolve_at implies evolved, also when one gain causes several level-ups, *)
(* and evolved is never true while level < evolve_at.                      *)
EvolvedIffLevelReached ==
    \A n \in DOMAIN pets :
       /\ pets[n].level >= pets[n].evolve_at => pets[n].evolved
       /\ pets[n].evolved => pets[n].level >= pets[n].evolve_at

(* one gain of 250 XP took a pet past its evolve_at level *)
EvolvedPastThreshold ==
    /\ res.op = "gain" /\ res.gain = 250
    /\ \E n \in DOMAIN pets :
          /\ pets[n].evolved
          /\ pets[n].level > pets[n].evolve_at
          /\ pets[n].level - 2 < pets[n].evolve_at

(* C17: a decay step with positive elapsed time lowers happiness by 0.5    *)
(* per hour, floored at 0, exactly when hunger > 70 or energy < 20 after   *)
(* the same step has updated hunger and energy; otherwise it leaves        *)
(* happiness unchanged.                                                    *)
HappinessDecaysOnUpdatedStats ==
    [][res'.op \in {"status", "index"} =>
          \A n \in DOMAIN pets :
             LET p == pets[n]
                 q == pets'[n]
                 hours == now - p.last_updated
             IN  ((res'.op = "status" => res'.name = n) /\ hours > 0)
                 => /\ q.hunger = Min(100 * Scale, p.hunger + HUNGER_INCREASE_PER_HOUR * hours)
                    /\ q.energy = Max(0, Min(p.max_energy,
                                             p.energy + ENERGY_RECOVER_PER_HOUR * hours))
                    /\ q.happiness
                         = IF q.hunger > 70 * Scale \/ q.energy < 20 * Scale
                           THEN Max(0, p.happiness - HAPPINESS_DECAY_PER_HOUR * hours)
                           ELSE p.happiness]_vars

(* a cat looked at a day after its creation: hunger has risen from 30 to  *)
(* 78 within the step, and happiness has dropped from 60 to 48            *)
HungryAfterADay ==
    /\ res.op = "status" /\ res.name \in DOMAIN pets
    /\ pets[res.name].species = "cat"
    /\ pets[res.name].xp = 0 /\ pets[res.name].level = 1
    /\ pets[res.name].hunger = 78 * Scale
    /\ pets[res.name].happiness = 48 * Scale

(* The handlers of the request layer that may write the store *)
SavingOps == PetOps \cup {"create", "delete"}

(* C18: every handler (create, feed, play, rest, work, buy, daily, delete) *)
(* writes the registry to the store exactly when the operation it called   *)
(* reported success, and never when it reported failure; after a handler   *)
(* that reported success the stored document is the serialization of the   *)
(* registry in memory.                                                     *)
SavedExactlyOnSuccess ==
    [][res'.op \in SavingOps =>
          IF res'.ok
          THEN store' = Save(pets') /\ store'.exists
          ELSE store' = store]_vars

(* a handler reported failure after its decay step had changed the pet:   *)
(* the store still holds the document of the last success                 *)
FailureLeftStoreBehind ==
    /\ res.op \in PetOps /\ ~res.ok
    /\ res.name \in DOMAIN pets
    /\ store.exists
    /\ res.name \in DOMAIN store.doc
    /\ store # Save(pets)
    /\ store.doc[res.name].last_updated < pets[res.name].last_updated

----------------------------------------------------------------------------
(* Loading on its own: the registry is constructed over save files that    *)
(* are absent, unparsable, or documents in which one timestamp field of    *)
(* one entry is missing or is not a number.                                *)

TimestampFields == {"last_updated", "last_daily_claim", "last_gift_time"}

Damages == {"intact", "missing", "malformed"}

(* The entry d of a document with field f damaged *)
Damage(d, f, how) ==
    CASE how = "missing" -> [k \in DOMAIN d \ {f} |-> d[k]]
      [] how = "malformed" -> [d EXCEPT ![f] = Malformed]
      [] OTHER -> d

(* A cat that has claimed its daily reward and found a gift, as saved *)
SavedEntry ==
    ToDict(MaybeRandomGift(
              DailyReward(PetFactoryCreate(<<"T">>, "cat", StartTime), StartTime).pet,
              RANDOM_GIFT_MAX, StartTime))

(* The documents: the entry of T damaged, beside the intact entry of R *)
DamagedStores ==
    {[exists |-> TRUE,
      doc |-> [n \in {<<"T">>, <<"R">>} |->
                 IF n = <<"T">> THEN Damage(SavedEntry, f, how)
                 ELSE ToDict(PetFactoryCreate(n, "dragon", StartTime))]] :
        f \in TimestampFields, how \in Damages}

LoadInputs == {NoStore, Unparsable} \cup DamagedStores

(* Before the process starts: the file is on disk, no registry yet *)
InitLoad ==
    /\ store \in LoadInputs
    /\ pets = EmptyPets
    /\ now = StartTime
    /\ res = Result("init", << >>, 0, TRUE, 0, 0)
    /\ nops = 0

NextLoad ==
    \/ \E d \in Elapses : Tick(d)
    \/ Restart

SpecLoad == InitLoad /\ [][NextLoad]_vars

(* The registry has just been constructed over a document *)
Loaded == res.op = "restart" /\ res.ok /\ store.exists

(* Field f of the stored entry n is missing or is not a number *)
Unusable(n, f) ==
    f \notin DOMAIN store.doc[n] \/ ~IsNumber(store.doc[n][f])

ConstructionSurvivesBadFile ==
    (res.op = "restart" /\ (~store.exists \/ ~Readable(store)))
    => /\ res.ok
       /\ pets = EmptyPets

====
